---- MODULE Spec2Model ----
(***************************************************************************)
(* Model of the billing service.                                           *)
(*                                                                         *)
(*   src/src/routes/invoices.py  generate_invoice, update_invoice_status,  *)
(*                               billing_summary over the invoice table    *)
(*   src/src/models/invoice.py   Invoice.from_payment / add_payment /      *)
(*                               to_dict                                   *)
(*   src/src/main.py             create_invoice over invoices_db,          *)
(*                               get_reconciliation                        *)
(*   src/src/clients/payments.py get_payment, list_completed_payments      *)
(*                                                                         *)
(* Money is a Python float (IEEE-754 binary64).  The arithmetic of         *)
(* generate_invoice is reproduced bit for bit: a float is the natural      *)
(* number N with value N / 2^90, held as a little-endian sequence of       *)
(* 15-bit limbs, and every operation rounds its exact result to 53         *)
(* significant bits, ties to even.  A value produced by round(x, n) is     *)
(* the double nearest to a decimal with n places; it is stored as that     *)
(* decimal (an integer count of 10^-n) and converted back with D2F when    *)
(* the code computes with it again.                                        *)
(***************************************************************************)
EXTENDS Integers, Sequences, FiniteSets, TLC

VARIABLES
    invoices,      \* rows of the invoices table, in insertion order
    invoices_db,   \* main.py: in-memory dict invoice_id -> Invoice
    req,           \* the inputs of the handler call that ran last
    gwlog,         \* upstream calls made by the handler that ran last
    resp           \* the HTTP response of the handler that ran last

vars == <<invoices, invoices_db, req, gwlog, resp>>

----------------------------------------------------------------------------
(* Natural numbers of arbitrary size: little-endian limbs, <<>> is zero.   *)

LimbBase == 32768

RECURSIVE BNorm(_)
BNorm(a) ==
    IF a = <<>> THEN <<>>
    ELSE IF a[Len(a)] = 0 THEN BNorm(SubSeq(a, 1, Len(a) - 1))
    ELSE a

RECURSIVE IntToBig(_)
IntToBig(n) ==
    IF n = 0 THEN <<>> ELSE <<n % LimbBase>> \o IntToBig(n \div LimbBase)

RECURSIVE BigToInt(_)
BigToInt(a) ==
    IF a = <<>> THEN 0 ELSE a[1] + LimbBase * BigToInt(Tail(a))

Zeros(n) == [i \in 1..n |-> 0]

BIsZero(a) == \A i \in 1..Len(a) : a[i] = 0

RECURSIVE BAddC(_, _, _)
BAddC(a, b, carry) ==
    IF a = <<>> /\ b = <<>>
    THEN (IF carry = 0 THEN <<>> ELSE <<carry>>)
    ELSE LET x == IF a = <<>> THEN 0 ELSE a[1]
             y == IF b = <<>> THEN 0 ELSE b[1]
             s == x + y + carry
         IN  <<s % LimbBase>>
             \o BAddC(IF a = <<>> THEN <<>> ELSE Tail(a),
                      IF b = <<>> THEN <<>> ELSE Tail(b),
                      s \div LimbBase)

BAdd(a, b) == BNorm(BAddC(a, b, 0))

RECURSIVE BMulSmallC(_, _, _)
BMulSmallC(a, m, carry) ==
    IF a = <<>>
    THEN (IF carry = 0 THEN <<>> ELSE <<carry>>)
    ELSE LET p == a[1] * m + carry
         IN  <<p % LimbBase>> \o BMulSmallC(Tail(a), m, p \div LimbBase)

\* a * m for 0 <= m < LimbBase
BMulSmall(a, m) == BNorm(BMulSmallC(a, m, 0))

RECURSIVE BMul(_, _)
BMul(a, b) ==
    IF b = <<>> \/ a = <<>> THEN <<>>
    ELSE BAdd(BMulSmall(a, b[1]),
              LET rest == BMul(a, Tail(b))
              IN  IF rest = <<>> THEN <<>> ELSE <<0>> \o rest)

RECURSIVE BDivStep(_, _, _, _, _)
BDivStep(a, d, i, rem, acc) ==
    IF i = 0 THEN [q |-> BNorm(acc), r |-> rem]
    ELSE LET cur == rem * LimbBase + a[i]
         IN  BDivStep(a, d, i - 1, cur % d, <<cur \div d>> \o acc)

\* quotient and remainder of a by d, for 0 < d <= LimbBase
BDivSmall(a, d) == BDivStep(a, d, Len(a), 0, <<>>)

RECURSIVE Pow2(_)
Pow2(n) == IF n = 0 THEN 1 ELSE 2 * Pow2(n - 1)

RECURSIVE IntBitLen(_)
IntBitLen(n) == IF n = 0 THEN 0 ELSE 1 + IntBitLen(n \div 2)

BitLen(a) ==
    LET n == BNorm(a)
    IN  IF n = <<>> THEN 0 ELSE 15 * (Len(n) - 1) + IntBitLen(n[Len(n)])

----------------------------------------------------------------------------
(* IEEE-754 binary64, round to nearest, ties to even.                      *)

FracLimbs == 6      \* a float is N / 2^(15 * FracLimbs)
MantBits  == 53

\* The double nearest to (w + f) / 2^180, where 0 < f < 1 iff sticky.
Rnd53(w0, sticky) ==
    LET w  == BNorm(w0)
        bl == BitLen(w)
    IN  IF w = <<>> THEN <<>>
        ELSE
        LET s       == bl - MantBits
            a1      == (s - 1) \div 15
            b1      == (s - 1) % 15
            dv      == BDivSmall(SubSeq(w, a1 + 1, Len(w)), Pow2(b1))
            inexact == sticky \/ dv.r # 0 \/ ~BIsZero(SubSeq(w, 1, a1))
            F       == dv.q
            q       == BDivSmall(F, 2).q
            rbit    == F[1] % 2
            qodd    == q[1] % 2 = 1
            M       == IF rbit = 1 /\ (inexact \/ qodd) THEN BAdd(q, <<1>>) ELSE q
            t       == s - 15 * FracLimbs
        IN  Zeros(t \div 15) \o BMulSmall(M, Pow2(t % 15))

FMul(x, y) == Rnd53(BMul(x, y), FALSE)

FAdd(x, y) ==
    LET s == BAdd(x, y)
    IN  IF s = <<>> THEN <<>> ELSE Rnd53(Zeros(FracLimbs) \o s, FALSE)

RECURSIVE BDivAll(_, _, _)
BDivAll(a, ds, sticky) ==
    IF ds = <<>> THEN [q |-> a, sticky |-> sticky]
    ELSE LET dv == BDivSmall(a, Head(ds))
         IN  BDivAll(dv.q, Tail(ds), sticky \/ dv.r # 0)

\* The double nearest to n / (ds[1] * ... * ds[k]): int / int true division,
\* and the value of a decimal literal.
FRatio(n, ds) ==
    IF n = 0 THEN <<>>
    ELSE LET dv == BDivAll(Zeros(2 * FracLimbs) \o IntToBig(n), ds, FALSE)
         IN  Rnd53(dv.q, dv.sticky)

Pow10Limbs(nd) ==
    IF nd = 1 THEN <<10>>
    ELSE IF nd = 2 THEN <<100>>
    ELSE IF nd = 6 THEN <<1000, 1000>>
    ELSE <<>>

\* float(n) of an int: exact
FInt(n) == IF n = 0 THEN <<>> ELSE Zeros(FracLimbs) \o IntToBig(n)

RECURSIVE BMulAll(_, _)
BMulAll(a, ms) == IF ms = <<>> THEN a ELSE BMulAll(BMulSmall(a, Head(ms)), Tail(ms))

\* Python round(x, nd) of a float: the decimal with nd places nearest to the
\* exact binary value, ties to even; the result as a count of 10^-nd.
FRound(x, nd) ==
    LET X    == BMulAll(x, Pow10Limbs(nd))
        n    == Len(X)
        hi   == IF n > FracLimbs THEN SubSeq(X, FracLimbs + 1, n) ELSE <<>>
        top  == IF n >= FracLimbs THEN X[FracLimbs] ELSE 0
        low0 == n < FracLimbs \/ BIsZero(SubSeq(X, 1, FracLimbs - 1))
        half == LimbBase \div 2
        q    == BigToInt(hi)
        up   == \/ top > half
                \/ top = half /\ ~low0
                \/ top = half /\ low0 /\ q % 2 = 1
    IN  IF up THEN q + 1 ELSE q

\* The float that round(x, nd) returned, from its decimal.
D2F(d, nd) == FRatio(d, Pow10Limbs(nd))

----------------------------------------------------------------------------
(* Bounds of the model.                                                    *)

MaxSessions == 3    \* sessions in one upstream reply (generation inputs)
MaxInvoices == 2    \* rows the invoice table may hold
MaxPayments == 2    \* entries invoices_db may hold
MaxLineItems == 3   \* line items of an invoice extended by add_payment
MaxCompleted == 3   \* completed payments in one upstream reply

----------------------------------------------------------------------------
(* Values shared by the handlers.                                          *)

\* dict.get(key, default)
Get(d, k, default) == IF k \in DOMAIN d THEN d[k] ELSE default

\* class InvoiceStatus(str, Enum): member names
InvoiceStatus == {"DRAFT", "ISSUED", "PAID", "OVERDUE", "CANCELLED"}

\* member.value
StatusValue(m) ==
    CASE m = "DRAFT"     -> "draft"
      [] m = "ISSUED"    -> "issued"
      [] m = "PAID"      -> "paid"
      [] m = "OVERDUE"   -> "overdue"
      [] m = "CANCELLED" -> "cancelled"

\* InvoiceStatus(value): the member with that value; ValueError when none
HasStatusValue(v) == \E m \in InvoiceStatus : StatusValue(m) = v
StatusOfValue(v)  == CHOOSE m \in InvoiceStatus : StatusValue(m) = v

\* An upstream call either raises or returns the decoded JSON.
Failed    == [ok |-> FALSE, data |-> <<>>]
Ok(data)  == [ok |-> TRUE, data |-> data]

NoBody == [detail |-> "none"]

----------------------------------------------------------------------------
(* Upstream data the handlers are run on.                                  *)
(* Times are hours; an ISO-8601 timestamp is its local hour and its UTC    *)
(* offset.  Token counts are ints; a key a session lacks is absent.        *)

Stamp(l, o) == [local |-> l, off |-> o]

\* the two sessions of tests/test_billing.py (instants 1 and 2)
MockSession1 ==
    [agent_name |-> "code-reviewer", model |-> "gpt-4o",
     input_tokens |-> 5000, output_tokens |-> 2000, cached_tokens |-> 500,
     started_at |-> Stamp(1, 0)]
MockSession2 ==
    [agent_name |-> "bug-fixer", model |-> "gpt-4o",
     input_tokens |-> 3000, output_tokens |-> 1000, cached_tokens |-> 200,
     started_at |-> Stamp(3, 1)]
\* no agent_name, no model (instant 1)
BareSession ==
    [input_tokens |-> 1000, started_at |-> Stamp(2, 1)]
\* agent and model spelled "unknown" (instant 3)
LateSession ==
    [agent_name |-> "unknown", model |-> "unknown",
     cached_tokens |-> 50, started_at |-> Stamp(3, 0)]
\* no model (instant 0)
EarlySession ==
    [agent_name |-> "bug-fixer", output_tokens |-> 2800,
     started_at |-> Stamp(0, 0)]

SessionPool ==
    {MockSession1, MockSession2, BareSession, LateSession, EarlySession}

RECURSIVE SeqsUpTo(_, _)
SeqsUpTo(S, n) ==
    IF n = 0 THEN {<<>>}
    ELSE LET shorter == SeqsUpTo(S, n - 1)
         IN  shorter \cup {Append(q, x) : q \in shorter, x \in S}

SessionLists == SeqsUpTo(SessionPool, MaxSessions)

Periods  == {<<1, 2>>, <<0, 3>>}     \* period_start, period_end as UTC hours
TaxRates == {0, 10}                  \* tax_rate in hundredths: 0.0 and 0.1
TeamIds  == {"team_eng"}

TeamsPool ==
    { <<>>,
      <<[id |-> "team_eng", name |-> "Engineering", monthly_budget |-> 5000]>>,
      <<[id |-> "team_ops", name |-> "Operations"],
        [id |-> "team_eng", name |-> "Engineering", monthly_budget |-> 0]>> }

CostPool ==
    { <<>>,
      <<[team_id |-> "team_eng", total_sessions |-> 100, total_cost |-> 250]>>,
      <<[team_id |-> "team_ops", total_sessions |-> 7, total_cost |-> 1],
        [team_id |-> "team_new", total_cost |-> 3],
        [team_id |-> "team_eng", total_sessions |-> 100, total_cost |-> 250],
        [team_id |-> "team_eng", total_sessions |-> 1, total_cost |-> 1],
        [total_sessions |-> 2],
        [team_id |-> "team_six", total_sessions |-> 6, total_cost |-> 6]>> }

GenerateRequests ==
    { [team_id |-> t, period_start |-> p[1], period_end |-> p[2],
       tax_rate |-> r, notes |-> "none"] :
      t \in TeamIds, p \in Periods, r \in TaxRates }

----------------------------------------------------------------------------
(* generate_invoice: the computation.                                      *)

\* datetime.fromisoformat(s["started_at"]) compared as an aware datetime:
\* the instant in UTC
FromIsoFormat(ts) == ts.local - ts.off

\* mutants of InPeriod: no upper bound; upper bound exclusive
InPeriodNoUpper(started, period_start, period_end) ==
    period_start <= started

InPeriodOpenEnd(started, period_start, period_end) ==
    period_start <= started /\ started < period_end

InPeriod(started, period_start, period_end) ==
    period_start <= started /\ started <= period_end

RECURSIVE PeriodSessions(_, _, _)
PeriodSessions(sessions, period_start, period_end) ==
    IF sessions = <<>> THEN <<>>
    ELSE LET s    == Head(sessions)
             rest == PeriodSessions(Tail(sessions), period_start, period_end)
         IN  IF InPeriod(FromIsoFormat(s.started_at), period_start, period_end)
             THEN <<s>> \o rest
             ELSE rest

\* next((t for t in teams if t["id"] == team_id), None), then the name
TeamName(teams, team_id) ==
    IF ~teams.ok THEN team_id
    ELSE LET hits == {i \in 1..Len(teams.data) : teams.data[i].id = team_id}
         IN  IF hits = {} THEN team_id
             ELSE teams.data[CHOOSE i \in hits : \A j \in hits : i <= j].name

GroupKey(s) == <<Get(s, "agent_name", "unknown"), Get(s, "model", "unknown")>>

\* mutants of GroupsAppend: a repeated key restarts its list; a new key
\* goes to the front
GroupsAppendRestart(groups, key, s) ==
    IF \E i \in 1..Len(groups) : groups[i].key = key
    THEN [i \in 1..Len(groups) |->
            IF groups[i].key = key
            THEN [groups[i] EXCEPT !.sessions = <<s>>]
            ELSE groups[i]]
    ELSE Append(groups, [key |-> key, sessions |-> <<s>>])

GroupsAppendFront(groups, key, s) ==
    IF \E i \in 1..Len(groups) : groups[i].key = key
    THEN [i \in 1..Len(groups) |->
            IF groups[i].key = key
            THEN [groups[i] EXCEPT !.sessions = Append(@, s)]
            ELSE groups[i]]
    ELSE <<[key |-> key, sessions |-> <<s>>]>> \o groups

\* groups[key].append(s) on a defaultdict(list): a dict keeps its keys in
\* the order they were first inserted
GroupsAppend(groups, key, s) ==
    IF \E i \in 1..Len(groups) : groups[i].key = key
    THEN [i \in 1..Len(groups) |->
            IF groups[i].key = key
            THEN [groups[i] EXCEPT !.sessions = Append(@, s)]
            ELSE groups[i]]
    ELSE Append(groups, [key |-> key, sessions |-> <<s>>])

RECURSIVE GroupSessions(_, _)
GroupSessions(period_sessions, groups) ==
    IF period_sessions = <<>> THEN groups
    ELSE GroupSessions(Tail(period_sessions),
                       GroupsAppend(groups, GroupKey(Head(period_sessions)),
                                    Head(period_sessions)))

RECURSIVE SumTokens(_, _)
SumTokens(ss, field) ==
    IF ss = <<>> THEN 0 ELSE Get(Head(ss), field, 0) + SumTokens(Tail(ss), field)

\* settings: float literals, per 1K tokens
input_token_price  == FRatio(3, <<1000>>)
output_token_price == FRatio(15, <<1000>>)
cached_token_price == FRatio(15, <<1000, 100>>)

\* the float a request's tax_rate is
TaxRateFloat(r) == FRatio(r, <<100>>)

\* (tok / 1000) * price, summed left to right
RawAmount(input_tok, output_tok, cached_tok) ==
    FAdd(FAdd(FMul(FRatio(input_tok, <<1000>>), input_token_price),
              FMul(FRatio(output_tok, <<1000>>), output_token_price)),
         FMul(FRatio(cached_tok, <<1000>>), cached_token_price))

\* amount = round(amount, 6), in millionths
Amount(input_tok, output_tok, cached_tok) ==
    FRound(RawAmount(input_tok, output_tok, cached_tok), 6)

LineItem(g) ==
    LET input_tok  == SumTokens(g.sessions, "input_tokens")
        output_tok == SumTokens(g.sessions, "output_tokens")
        cached_tok == SumTokens(g.sessions, "cached_tokens")
    IN  [description   |-> <<g.key[1], " on ", g.key[2]>>,
         agent_name    |-> g.key[1],
         model         |-> g.key[2],
         session_count |-> Len(g.sessions),
         input_tokens  |-> input_tok,
         output_tokens |-> output_tok,
         cached_tokens |-> cached_tok,
         amount        |-> Amount(input_tok, output_tok, cached_tok)]

\* subtotal = 0.0; subtotal += amount for each group, as a float
RECURSIVE Accumulate(_, _)
Accumulate(items, subtotal) ==
    IF items = <<>> THEN subtotal
    ELSE Accumulate(Tail(items), FAdd(subtotal, D2F(Head(items).amount, 6)))

TaxAmount(subtotal, tax_rate) == FRound(FMul(subtotal, TaxRateFloat(tax_rate)), 2)

TotalAmount(subtotal, tax_amount) == FRound(FAdd(subtotal, D2F(tax_amount, 2)), 2)

\* Lines 56-106 for one filtered list and tax rate: the line items in
\* group order and the invoice's totals.  amount and subtotal are in
\* millionths, tax_amount and total_amount in hundredths.
ComputeBilling(period_sessions, tax_rate) ==
    LET groups     == GroupSessions(period_sessions, <<>>)
        line_items == [i \in 1..Len(groups) |-> LineItem(groups[i])]
        subtotal   == Accumulate(line_items, <<>>)
        tax_amount == TaxAmount(subtotal, tax_rate)
    IN  [line_items          |-> line_items,
         total_sessions      |-> Len(period_sessions),
         total_input_tokens  |-> SumTokens(period_sessions, "input_tokens"),
         total_output_tokens |-> SumTokens(period_sessions, "output_tokens"),
         total_cached_tokens |-> SumTokens(period_sessions, "cached_tokens"),
         subtotal            |-> FRound(subtotal, 6),
         tax_amount          |-> tax_amount,
         total_amount        |-> TotalAmount(subtotal, tax_amount)]

\* ComputeBilling tabulated over the inputs of the model, evaluated once
BillingTable ==
    [k \in SessionLists \X TaxRates |-> ComputeBilling(k[1], k[2])]

Billing(period_sessions, tax_rate) == BillingTable[<<period_sessions, tax_rate>>]

----------------------------------------------------------------------------
(* The handlers of routes/invoices.py.                                     *)

Call(name, ok) == [call |-> name, ok |-> ok]

Response(op, code, body) == [op |-> op, code |-> code, body |-> body]

\* mutant of FetchSessions: a failed fetch is tried once more
FetchSessionsRetry(sessions) ==
    IF sessions.ok THEN <<Call("list_sessions", TRUE)>>
    ELSE <<Call("list_sessions", FALSE), Call("list_sessions", FALSE)>>

\* try: sessions = await gateway.list_sessions(...): the calls it makes
FetchSessions(sessions) == <<Call("list_sessions", sessions.ok)>>

\* Invoice(...) with invoice.line_items = line_items, from the billing b
\* computed for the request; uuid4 is a fresh id
NewInvoice(invoice_id, request, team_name, b) ==
    [id                  |-> invoice_id,
     team_id             |-> request.team_id,
     team_name           |-> team_name,
     period_start        |-> request.period_start,
     period_end          |-> request.period_end,
     total_sessions      |-> b.total_sessions,
     total_input_tokens  |-> b.total_input_tokens,
     total_output_tokens |-> b.total_output_tokens,
     total_cached_tokens |-> b.total_cached_tokens,
     subtotal            |-> b.subtotal,
     tax_rate            |-> request.tax_rate,
     tax_amount          |-> b.tax_amount,
     total_amount        |-> b.total_amount,
     status              |-> "ISSUED",
     notes               |-> request.notes,
     line_items          |-> [i \in 1..Len(b.line_items) |->
                                b.line_items[i] @@ [invoice_id |-> invoice_id]]]

\* POST /invoices
generate_invoice(request, sessions, teams) ==
    /\ req' = [op |-> "generate_invoice", request |-> request,
               sessions |-> sessions, teams |-> teams]
    /\ UNCHANGED invoices_db
    /\ IF ~sessions.ok
       THEN /\ gwlog' = FetchSessions(sessions)
            /\ resp' = Response("generate_invoice", 502, NoBody)
            /\ UNCHANGED invoices
       ELSE LET period_sessions ==
                    PeriodSessions(sessions.data, request.period_start,
                                   request.period_end)
            IN  IF period_sessions = <<>>
                THEN /\ gwlog' = FetchSessions(sessions)
                     /\ resp' = Response("generate_invoice", 404, NoBody)
                     /\ UNCHANGED invoices
                ELSE LET invoice ==
                             NewInvoice(Len(invoices) + 1, request,
                                        TeamName(teams, request.team_id),
                                        Billing(period_sessions,
                                                request.tax_rate))
                     IN  /\ Len(invoices) < MaxInvoices
                         /\ gwlog' = FetchSessions(sessions)
                                       \o <<Call("get_teams", teams.ok)>>
                         /\ invoices' = Append(invoices, invoice)
                         /\ resp' = Response("generate_invoice", 201, invoice)

\* mutant of update_invoice_status: the status is written to every row
update_invoice_status_all_rows(invoice_id, status) ==
    LET hits == {i \in 1..Len(invoices) : invoices[i].id = invoice_id}
    IN  /\ req' = [op |-> "update_invoice_status",
                   invoice_id |-> invoice_id, status |-> status]
        /\ gwlog' = <<>>
        /\ UNCHANGED invoices_db
        /\ IF hits = {}
           THEN /\ resp' = Response("update_invoice_status", 404, NoBody)
                /\ UNCHANGED invoices
           ELSE IF ~HasStatusValue(status)
           THEN /\ resp' = Response("update_invoice_status", 500, NoBody)
                /\ UNCHANGED invoices
           ELSE LET i == CHOOSE j \in hits : TRUE
                    updated == [invoices[i] EXCEPT !.status = StatusOfValue(status)]
                IN  /\ invoices' = [j \in 1..Len(invoices) |->
                                      [invoices[j] EXCEPT
                                          !.status = StatusOfValue(status)]]
                    /\ resp' = Response("update_invoice_status", 200, updated)

\* PATCH /invoices/{invoice_id}?status=...
update_invoice_status(invoice_id, status) ==
    LET hits == {i \in 1..Len(invoices) : invoices[i].id = invoice_id}
    IN  /\ req' = [op |-> "update_invoice_status",
                   invoice_id |-> invoice_id, status |-> status]
        /\ gwlog' = <<>>
        /\ UNCHANGED invoices_db
        /\ IF hits = {}
           THEN /\ resp' = Response("update_invoice_status", 404, NoBody)
                /\ UNCHANGED invoices
           ELSE IF ~HasStatusValue(status)
           THEN \* InvoiceStatus(status) raises ValueError before the commit
                /\ resp' = Response("update_invoice_status", 500, NoBody)
                /\ UNCHANGED invoices
           ELSE LET i == CHOOSE j \in hits : TRUE
                    updated == [invoices[i] EXCEPT !.status = StatusOfValue(status)]
                IN  /\ invoices' = [invoices EXCEPT ![i] = updated]
                    /\ resp' = Response("update_invoice_status", 200, updated)

\* select(func.sum(Invoice.total_amount), func.count(Invoice.id)):
\* SUM over no rows is NULL
RECURSIVE SumTotalAmount(_)
SumTotalAmount(rows) ==
    IF rows = <<>> THEN 0 ELSE Head(rows).total_amount + SumTotalAmount(Tail(rows))

TotalsRow(rows) ==
    [sum_null |-> rows = <<>>, sum |-> SumTotalAmount(rows), count |-> Len(rows)]

\* row[0] or 0.0
TotalRevenue(row) == IF row.sum_null \/ row.sum = 0 THEN 0 ELSE row.sum

\* mutant of InvoicesByStatus: every status gets a key
InvoicesByStatusZeroFilled(rows) ==
    [v \in {StatusValue(m) : m \in InvoiceStatus} |->
        Cardinality({i \in 1..Len(rows) : StatusValue(rows[i].status) = v})]

\* select(Invoice.status, func.count(Invoice.id)).group_by(Invoice.status),
\* keyed by the status value
InvoicesByStatus(rows) ==
    [v \in {StatusValue(rows[i].status) : i \in 1..Len(rows)} |->
        Cardinality({i \in 1..Len(rows) : StatusValue(rows[i].status) = v})]

\* team_map = {t["id"]: t for t in teams}; team_map.get(tid, {})
TeamMapGet(teams, tid) ==
    LET hits == {i \in 1..Len(teams) : teams[i].id = tid}
    IN  IF hits = {} THEN <<>>
        ELSE teams[CHOOSE i \in hits : \A j \in hits : j <= i]

\* round(total_cost / monthly_budget * 100 if monthly_budget else 0, 1),
\* in tenths of a percent
BudgetUsedPct(entry, team) ==
    IF Get(team, "monthly_budget", 0) # 0
    THEN FRound(FMul(FRatio(Get(entry, "total_cost", 0), <<team.monthly_budget>>),
                     FInt(100)), 1)
    ELSE 0

\* mutant of TeamCostSummary: a team that is not found gets an empty name
TeamCostSummaryNoFallback(entry, teams) ==
    LET tid  == Get(entry, "team_id", "")
        team == TeamMapGet(teams, tid)
    IN  [team_id         |-> tid,
         team_name       |-> Get(team, "name", ""),
         total_sessions  |-> Get(entry, "total_sessions", 0),
         total_cost      |-> Get(entry, "total_cost", 0),
         budget          |-> Get(team, "monthly_budget", 0),
         budget_used_pct |-> BudgetUsedPct(entry, team)]

\* TeamCostSummary(...) for one entry of cost_data
TeamCostSummary(entry, teams) ==
    LET tid  == Get(entry, "team_id", "")
        team == TeamMapGet(teams, tid)
    IN  [team_id         |-> tid,
         team_name       |-> Get(team, "name", tid),
         total_sessions  |-> Get(entry, "total_sessions", 0),
         total_cost      |-> Get(entry, "total_cost", 0),
         budget          |-> Get(team, "monthly_budget", 0),
         budget_used_pct |-> BudgetUsedPct(entry, team)]

\* mutant of ComputeTopTeams: a failed teams fetch counts as no teams
ComputeTopTeamsNoTeams(cost, teams) ==
    IF ~cost.ok THEN <<>>
    ELSE LET n == IF Len(cost.data) < 5 THEN Len(cost.data) ELSE 5
         IN  [i \in 1..n |-> TeamCostSummary(cost.data[i], teams.data)]

\* the try block of billing_summary: any failure leaves top_teams empty
ComputeTopTeams(cost, teams) ==
    IF ~cost.ok \/ ~teams.ok THEN <<>>
    ELSE LET n == IF Len(cost.data) < 5 THEN Len(cost.data) ELSE 5
         IN  [i \in 1..n |-> TeamCostSummary(cost.data[i], teams.data)]

Outcomes(pool) == {Failed} \cup {Ok(d) : d \in pool}

TopTeamsTable ==
    [k \in Outcomes(CostPool) \X Outcomes(TeamsPool) |-> ComputeTopTeams(k[1], k[2])]

TopTeams(cost, teams) == TopTeamsTable[<<cost, teams>>]

\* the upstream calls of billing_summary: get_teams only after
\* get_cost_by_team returned
FetchCosts(cost, teams) ==
    IF cost.ok
    THEN <<Call("get_cost_by_team", TRUE), Call("get_teams", teams.ok)>>
    ELSE <<Call("get_cost_by_team", FALSE)>>

Summary(rows, cost, teams) ==
    LET row == TotalsRow(rows)
    IN  [total_revenue      |-> TotalRevenue(row),
         total_invoices     |-> row.count,
         invoices_by_status |-> InvoicesByStatus(rows),
         top_teams          |-> TopTeams(cost, teams)]

\* GET /billing/summary
billing_summary(cost, teams) ==
    /\ req' = [op |-> "billing_summary", cost |-> cost, teams |-> teams]
    /\ gwlog' = FetchCosts(cost, teams)
    /\ resp' = Response("billing_summary", 200, Summary(invoices, cost, teams))
    /\ UNCHANGED <<invoices, invoices_db>>

----------------------------------------------------------------------------
(* The service as a state machine: requests arrive in any order.           *)

\* what the state machine is driven with
ServedSessions ==
    {<<>>, <<LateSession>>, <<MockSession1>>, <<MockSession1, MockSession2>>}
ServedRequests == { r \in GenerateRequests : r.period_start = 1 /\ r.tax_rate = 10 }
ServedTeams    == {Ok(d) : d \in {t \in TeamsPool : Len(t) = 1}}
StatusParams   == {StatusValue(m) : m \in InvoiceStatus} \cup {"refunded"}

Init ==
    /\ invoices = <<>>
    /\ invoices_db = <<>>
    /\ req = [op |-> "none"]
    /\ gwlog = <<>>
    /\ resp = Response("none", 0, NoBody)

GenerateInvoice ==
    \E request \in ServedRequests,
       sessions \in Outcomes(ServedSessions),
       teams \in ServedTeams :
        generate_invoice(request, sessions, teams)

UpdateInvoiceStatus ==
    \E invoice_id \in 1..(MaxInvoices + 1), status \in StatusParams :
        update_invoice_status(invoice_id, status)

BillingSummary ==
    \E cost \in Outcomes(CostPool), teams \in Outcomes(TeamsPool) :
        billing_summary(cost, teams)

Next ==
    \/ GenerateInvoice
    \/ UpdateInvoiceStatus
    \/ BillingSummary

Spec == Init /\ [][Next]_vars

----------------------------------------------------------------------------
(* generate_invoice as a function of its inputs: one call on an empty      *)
(* table, for every request and every upstream reply of the pools.         *)

InitGen ==
    /\ invoices = <<>>
    /\ invoices_db = <<>>
    /\ req \in { [op |-> "pending", request |-> request,
                  sessions |-> sessions, teams |-> teams] :
                 request \in GenerateRequests,
                 sessions \in Outcomes(SessionLists),
                 teams \in Outcomes(TeamsPool) }
    /\ gwlog = <<>>
    /\ resp = Response("none", 0, NoBody)

GenerateOnce ==
    /\ req.op = "pending"
    /\ generate_invoice(req.request, req.sessions, req.teams)

NextGen == GenerateOnce

SpecGen == InitGen /\ [][NextGen]_vars

----------------------------------------------------------------------------
(* models/invoice.py and main.py: invoices made from payment records.      *)
(* A str is the sequence of its characters; a payment's amount.value is    *)
(* the float that the JSON decimal with two places parses to.              *)

PaymentPool ==
    { [payment_reference |-> ref,
       amount     |-> [value |-> v, currency |-> "USD"],
       first_name |-> fn,
       last_name  |-> ln,
       status     |-> "completed",
       created_at |-> Stamp(1, 0)] :
      ref \in {"pay_1"},
      v   \in {D2F(1050, 2), D2F(20000, 2)},
      fn  \in {<<"A", "l">>, <<" ">>},
      ln  \in {<<"B">>, <<>>} }

\* str.strip()
RECURSIVE LStrip(_)
LStrip(str) ==
    IF str # <<>> /\ Head(str) = " " THEN LStrip(Tail(str)) ELSE str

RECURSIVE RStrip(_)
RStrip(str) ==
    IF str # <<>> /\ str[Len(str)] = " "
    THEN RStrip(SubSeq(str, 1, Len(str) - 1))
    ELSE str

Strip(str) == RStrip(LStrip(str))

\* InvoiceLineItem for one payment
PaymentLineItem(payment_data) ==
    [description            |-> <<"Payment ", payment_data.payment_reference>>,
     amount                 |-> payment_data.amount.value,
     payment_transaction_id |-> payment_data.payment_reference]

\* mutant of from_payment: total_amount left at its default
from_payment_no_total(payment_data, invoice_id) ==
    [invoice_id    |-> invoice_id,
     customer_name |-> Strip(payment_data.first_name \o <<" ">>
                             \o payment_data.last_name),
     line_items    |-> <<PaymentLineItem(payment_data)>>,
     total_amount  |-> <<>>,
     issued_at     |-> "now",
     status        |-> "ISSUED"]

\* Invoice.from_payment; uuid4 is a fresh id
from_payment(payment_data, invoice_id) ==
    [invoice_id    |-> invoice_id,
     customer_name |-> Strip(payment_data.first_name \o <<" ">>
                             \o payment_data.last_name),
     line_items    |-> <<PaymentLineItem(payment_data)>>,
     total_amount  |-> payment_data.amount.value,
     issued_at     |-> "now",
     status        |-> "ISSUED"]

\* Invoice.to_dict
to_dict(invoice) ==
    [invoice_id    |-> invoice.invoice_id,
     customer_name |-> invoice.customer_name,
     total_amount  |-> invoice.total_amount,
     status        |-> StatusValue(invoice.status),
     line_items    |-> [i \in 1..Len(invoice.line_items) |->
                          [description |-> invoice.line_items[i].description,
                           amount      |-> invoice.line_items[i].amount,
                           payment_transaction_id |->
                               invoice.line_items[i].payment_transaction_id]]]

\* PaymentsClient.get_payment: the six fields of the upstream record
get_payment(data) ==
    [payment_reference |-> data.payment_reference,
     amount            |-> data.amount,
     first_name        |-> data.first_name,
     last_name         |-> data.last_name,
     status            |-> data.status,
     created_at        |-> data.created_at]

\* POST /invoices of main.py
create_invoice(payment_id, fetched) ==
    /\ req' = [op |-> "create_invoice", payment_id |-> payment_id,
               payment |-> fetched]
    /\ gwlog' = <<Call("get_payment", fetched.ok)>>
    /\ UNCHANGED invoices
    /\ IF ~fetched.ok
       THEN /\ resp' = Response("create_invoice", 502, NoBody)
            /\ UNCHANGED invoices_db
       ELSE LET invoice_id == Len(invoices_db) + 1
                invoice    == from_payment(get_payment(fetched.data), invoice_id)
            IN  /\ Len(invoices_db) < MaxPayments
                /\ invoices_db' = invoices_db @@ (invoice_id :> invoice)
                /\ resp' = Response("create_invoice", 201, to_dict(invoice))

CreateInvoice ==
    \E fetched \in Outcomes(PaymentPool) : create_invoice("p", fetched)

NextPay == CreateInvoice

SpecPay == Init /\ [][NextPay]_vars

----------------------------------------------------------------------------
(* Invoice.add_payment on an invoice made by from_payment.                 *)

\* the payments an invoice is made from and extended with: 0.10, 0.20, 0.30
AddPool ==
    { [payment_reference |-> ref,
       amount     |-> [value |-> D2F(v, 2), currency |-> "USD"],
       first_name |-> <<"A">>,
       last_name  |-> <<"B">>,
       status     |-> "completed",
       created_at |-> Stamp(1, 0)] :
      ref \in {"pay_1", "pay_2"},
      v   \in {10, 20, 30} }

\* Invoice.add_payment: the invoice after the call
add_payment(invoice, payment_data) ==
    [invoice EXCEPT
        !.line_items   = Append(@, PaymentLineItem(payment_data)),
        !.total_amount = FAdd(@, payment_data.amount.value)]

\* invoices_db[invoice_id].add_payment(payment_data); it returns None
AddPayment ==
    \E invoice_id \in DOMAIN invoices_db, payment_data \in AddPool :
        /\ Len(invoices_db[invoice_id].line_items) < MaxLineItems
        /\ req' = [op |-> "add_payment", invoice_id |-> invoice_id,
                   payment |-> payment_data]
        /\ invoices_db' = [invoices_db EXCEPT
                              ![invoice_id] = add_payment(@, payment_data)]
        /\ resp' = Response("add_payment", 0, NoBody)
        /\ gwlog' = <<>>
        /\ UNCHANGED invoices

\* the invoice that is extended: POST /invoices on an empty invoices_db
CreateFirstInvoice ==
    /\ invoices_db = <<>>
    /\ \E payment_data \in AddPool : create_invoice("p", Ok(payment_data))

NextAdd ==
    \/ CreateFirstInvoice
    \/ AddPayment

SpecAdd == Init /\ [][NextAdd]_vars

----------------------------------------------------------------------------
(* GET /reconciliation of main.py over clients/payments.py.                *)

\* one record of the Payments API's reply to GET /payments?status=completed
Completed(ref, cents, first, last) ==
    [payment_reference |-> ref,
     amount     |-> [value |-> D2F(cents, 2), currency |-> "USD"],
     first_name |-> first,
     last_name  |-> last,
     status     |-> "completed",
     created_at |-> Stamp(1, 0)]

\* upstream records; the last one carries a customer_name key as well
CompletedPool ==
    { Completed("pay_1", 10000, <<"Alice">>, <<>>),
      Completed("pay_2", 20000, <<"Bob">>, <<>>),
      Completed("pay_3", 15000, <<"Alice">>, <<>>),
      Completed("pay_4", 10, <<"Al">>, <<"B">>),
      Completed("pay_5", 20, <<"Al">>, <<"B">>)
          @@ [customer_name |-> <<"Al", " ", "B">>] }

CompletedLists == SeqsUpTo(CompletedPool, MaxCompleted)

\* PaymentsClient.list_completed_payments: four keys of every record
list_completed_payments(payments) ==
    [i \in 1..Len(payments) |->
        [payment_reference |-> payments[i].payment_reference,
         amount            |-> payments[i].amount,
         first_name        |-> payments[i].first_name,
         last_name         |-> payments[i].last_name]]

\* an amount that is the JSON object {value, currency}: a dict
IsDict(amount) == "value" \in DOMAIN amount

\* sum(...) over floats: from 0, left to right
RECURSIVE SumFloats(_, _)
SumFloats(xs, acc) ==
    IF xs = <<>> THEN acc ELSE SumFloats(Tail(xs), FAdd(acc, Head(xs)))

\* GET /reconciliation.  sum() adds each p["amount"] to a number, which
\* raises TypeError for a dict; p["customer_name"] raises KeyError for a
\* record without that key.  Neither is caught: the reply is 500.
get_reconciliation(fetched) ==
    /\ req' = [op |-> "get_reconciliation", payments |-> fetched]
    /\ gwlog' = <<Call("list_completed_payments", fetched.ok)>>
    /\ UNCHANGED <<invoices, invoices_db>>
    /\ IF ~fetched.ok
       THEN resp' = Response("get_reconciliation", 502, NoBody)
       ELSE LET completed_payments == list_completed_payments(fetched.data)
                n == Len(completed_payments)
            IN  IF \E i \in 1..n : IsDict(completed_payments[i].amount)
                THEN resp' = Response("get_reconciliation", 500, NoBody)
                ELSE IF \E i \in 1..n :
                          "customer_name" \notin DOMAIN completed_payments[i]
                THEN resp' = Response("get_reconciliation", 500, NoBody)
                ELSE resp' = Response("get_reconciliation", 200,
                       [total_revenue  |->
                            SumFloats([i \in 1..n |-> completed_payments[i].amount],
                                      <<>>),
                        invoice_count  |-> n,
                        customers      |->
                            {completed_payments[i].customer_name : i \in 1..n}])

GetReconciliation ==
    \E fetched \in Outcomes(CompletedLists) : get_reconciliation(fetched)

NextRecon == GetReconciliation

SpecRecon == Init /\ [][NextRecon]_vars


----------------------------------------------------------------------------
(* Properties.                                                             *)

Generated == req.op = "generate_invoice" /\ resp.code = 201

Instant(s) == FromIsoFormat(s.started_at)

\* the fetched sessions whose started_at lies in the request's period
KeptSessions ==
    SelectSeq(req.sessions.data,
              LAMBDA s : /\ req.request.period_start <= Instant(s)
                         /\ Instant(s) <= req.request.period_end)

PairOf(s) ==
    << IF "agent_name" \in DOMAIN s THEN s.agent_name ELSE "unknown",
       IF "model" \in DOMAIN s THEN s.model ELSE "unknown" >>

RECURSIVE SumOver(_, _)
SumOver(S, f) ==
    IF S = {} THEN 0
    ELSE LET x == CHOOSE y \in S : TRUE IN f[x] + SumOver(S \ {x}, f)

StatusRank(m) ==
    CASE m = "DRAFT" -> 0 [] m = "ISSUED" -> 1 [] OTHER -> 2

\* C1: no update_invoice_status call moves a persisted invoice's status
\* backward along draft -> issued -> {paid, overdue, cancelled}.
C1_StatusOnlyMovesForward ==
    [][\A i \in 1..Len(invoices) :
          StatusRank(invoices'[i].status) >= StatusRank(invoices[i].status)]_vars

\* C2: a generate_invoice call whose fetch returned no session inside the
\* period answers 404 and leaves the invoice table as it was.
C2_NoUsageIs404 ==
    [][(/\ req'.op = "generate_invoice"
        /\ req'.sessions.ok
        /\ \A i \in 1..Len(req'.sessions.data) :
              ~(/\ req'.request.period_start <= Instant(req'.sessions.data[i])
                /\ Instant(req'.sessions.data[i]) <= req'.request.period_end))
       => (resp'.code = 404 /\ invoices' = invoices)]_vars

C2_Witness ==
    /\ req.op = "generate_invoice"
    /\ req.sessions.ok
    /\ req.sessions.data # <<>>
    /\ resp.code = 404
    /\ invoices # <<>>

\* C3: a session counts iff period_start <= started_at <= period_end, and
\* the invoice is the one produced from the list without its out-of-period
\* sessions.
C3_OnlyInPeriodSessionsCount ==
    Generated =>
        /\ resp.body.total_sessions = Len(KeptSessions)
        /\ resp.body =
             NewInvoice(resp.body.id, req.request, resp.body.team_name,
                        Billing(KeptSessions, req.request.tax_rate))

C3_Witness ==
    /\ Generated
    /\ \E i, j, k \in 1..Len(req.sessions.data) :
          /\ Instant(req.sessions.data[i]) = req.request.period_start
          /\ Instant(req.sessions.data[j]) = req.request.period_end
          /\ Instant(req.sessions.data[k]) > req.request.period_end
    /\ resp.body.total_sessions = 2

\* C4: each line item carries the count and the token sums of exactly the
\* in-period sessions of its (agent_name, model) pair, and the invoice's
\* totals are the sums of its line items.
C4_LineItemsSumTheirGroup ==
    Generated =>
        LET kept  == KeptSessions
            items == resp.body.line_items
            Members(it) == {i \in 1..Len(kept) :
                               PairOf(kept[i]) = <<it.agent_name, it.model>>}
            Tok(i, field) == IF field \in DOMAIN kept[i] THEN kept[i][field] ELSE 0
            All == 1..Len(items)
        IN  /\ \A n \in All :
                LET it == items[n]
                    In  == [i \in 1..Len(kept) |-> Tok(i, "input_tokens")]
                    Out == [i \in 1..Len(kept) |-> Tok(i, "output_tokens")]
                    Cch == [i \in 1..Len(kept) |-> Tok(i, "cached_tokens")]
                IN  /\ it.session_count = Cardinality(Members(it))
                    /\ it.input_tokens  = SumOver(Members(it), In)
                    /\ it.output_tokens = SumOver(Members(it), Out)
                    /\ it.cached_tokens = SumOver(Members(it), Cch)
            /\ LET Cnt == [n \in All |-> items[n].session_count]
                   In  == [n \in All |-> items[n].input_tokens]
                   Out == [n \in All |-> items[n].output_tokens]
                   Cch == [n \in All |-> items[n].cached_tokens]
               IN  /\ resp.body.total_sessions      = SumOver(All, Cnt)
                   /\ resp.body.total_input_tokens  = SumOver(All, In)
                   /\ resp.body.total_output_tokens = SumOver(All, Out)
                   /\ resp.body.total_cached_tokens = SumOver(All, Cch)

C4_Witness ==
    /\ Generated
    /\ Len(resp.body.line_items) = 2
    /\ \E n \in 1..2 : resp.body.line_items[n].session_count = 2
    /\ Len(KeptSessions) = 3

\* C5: the line items are one per distinct (agent_name, model) pair of the
\* in-period sessions, a missing name counted as "unknown", in the order in
\* which each pair first occurs.
C5_OneLineItemPerPairInFirstOccurrenceOrder ==
    Generated =>
        LET kept   == KeptSessions
            items  == resp.body.line_items
            Firsts == {i \in 1..Len(kept) :
                          \A j \in 1..(i - 1) : PairOf(kept[j]) # PairOf(kept[i])}
            Nth(n) == CHOOSE i \in Firsts :
                          Cardinality({j \in Firsts : j <= i}) = n
        IN  /\ Len(items) = Cardinality({PairOf(kept[i]) : i \in 1..Len(kept)})
            /\ \A n \in 1..Len(items) :
                  <<items[n].agent_name, items[n].model>> = PairOf(kept[Nth(n)])

C5_Witness ==
    /\ Generated
    /\ Len(KeptSessions) = 3
    /\ "agent_name" \notin DOMAIN KeptSessions[1]
    /\ PairOf(KeptSessions[2]) # PairOf(KeptSessions[1])
    /\ "agent_name" \in DOMAIN KeptSessions[3]
    /\ PairOf(KeptSessions[3]) = PairOf(KeptSessions[1])
    /\ Len(resp.body.line_items) = 2

\* C6: subtotal is the sum of the line items' amounts, tax_amount is
\* round(subtotal * tax_rate, 2) of the stored subtotal, and total_amount is
\* round(subtotal + tax_amount, 2).
C6_TotalsFollowFromStoredSubtotal ==
    Generated =>
        LET inv == resp.body
            Amt == [n \in 1..Len(inv.line_items) |-> inv.line_items[n].amount]
        IN  /\ inv.subtotal = SumOver(1..Len(inv.line_items), Amt)
            /\ inv.tax_amount =
                 FRound(FMul(D2F(inv.subtotal, 6), TaxRateFloat(inv.tax_rate)), 2)
            /\ inv.total_amount =
                 FRound(FAdd(D2F(inv.subtotal, 6), D2F(inv.tax_amount, 2)), 2)

\* C7: a failed session fetch gives 502 after one list_sessions call and
\* leaves the invoice table as it was.
C7_FetchFailureIs502 ==
    [][(req'.op = "generate_invoice" /\ ~req'.sessions.ok)
       => /\ resp'.code = 502
          /\ gwlog' = <<Call("list_sessions", FALSE)>>
          /\ invoices' = invoices]_vars

C7_Witness ==
    /\ req.op = "generate_invoice"
    /\ ~req.sessions.ok
    /\ resp.code = 502
    /\ invoices # <<>>

\* C8: when the cost fetch or the teams fetch fails, billing_summary still
\* answers 200 with the revenue, count and status breakdown it gives when
\* both succeed, and with top_teams empty.
C8_SummarySurvivesFetchFailure ==
    (req.op = "billing_summary" /\ (~req.cost.ok \/ ~req.teams.ok)) =>
        /\ resp.code = 200
        /\ resp.body.top_teams = <<>>
        /\ \A cost \in Outcomes(CostPool) \ {Failed},
              teams \in Outcomes(TeamsPool) \ {Failed} :
              LET good == Summary(invoices, cost, teams)
              IN  /\ resp.body.total_revenue = good.total_revenue
                  /\ resp.body.total_invoices = good.total_invoices
                  /\ resp.body.invoices_by_status = good.invoices_by_status
        /\ resp.body.total_invoices = Len(invoices)

C8_Witness ==
    /\ req.op = "billing_summary"
    /\ req.cost.ok
    /\ req.cost.data # <<>>
    /\ ~req.teams.ok
    /\ invoices # <<>>

\* C9: billing_summary reports the number of persisted invoices, the sum of
\* their total_amount, and a count for exactly the statuses present.
C9_SummaryTotals ==
    req.op = "billing_summary" =>
        LET All     == 1..Len(invoices)
            Tot     == [i \in All |-> invoices[i].total_amount]
            by      == resp.body.invoices_by_status
            Present == {StatusValue(invoices[i].status) : i \in All}
        IN  /\ resp.body.total_invoices = Len(invoices)
            /\ resp.body.total_revenue = SumOver(All, Tot)
            /\ DOMAIN by = Present
            /\ \A v \in Present :
                  by[v] = Cardinality({i \in All : StatusValue(invoices[i].status) = v})
            /\ SumOver(DOMAIN by, by) = resp.body.total_invoices

C9_Witness ==
    /\ req.op = "billing_summary"
    /\ Len(invoices) = 2
    /\ invoices[1].status # invoices[2].status
    /\ invoices[1].total_amount # invoices[2].total_amount

\* C10: from_payment gives an issued invoice with one line item carrying the
\* payment's amount and reference and total_amount equal to that amount;
\* to_dict reports the same total_amount and one line item.
C10_InvoiceFromPayment ==
    (req.op = "create_invoice" /\ req.payment.ok) =>
        /\ resp.code = 201
        /\ resp.body.invoice_id \in DOMAIN invoices_db
        /\ LET inv == invoices_db[resp.body.invoice_id]
               pay == req.payment.data
           IN  /\ inv.status = "ISSUED"
               /\ Len(inv.line_items) = 1
               /\ inv.line_items[1].amount = pay.amount.value
               /\ inv.line_items[1].payment_transaction_id = pay.payment_reference
               /\ inv.total_amount = pay.amount.value
               /\ resp.body.total_amount = inv.total_amount
               /\ Len(resp.body.line_items) = 1
               /\ resp.body.status = "issued"

C10_Witness ==
    /\ req.op = "create_invoice"
    /\ resp.code = 201
    /\ Len(invoices_db) = 2
    /\ invoices_db[1].total_amount # invoices_db[2].total_amount

\* C13: with both fetches successful, top_teams is the first five entries
\* of the cost list (all of them when it has fewer) in the order given; an
\* entry whose team_id no team has gets team_name = team_id and budget 0;
\* budget_used_pct is 0 whenever the team has no monthly_budget or it is 0.
C13_TopTeamsFirstFiveAsGiven ==
    (req.op = "billing_summary" /\ req.cost.ok /\ req.teams.ok) =>
        LET cost  == req.cost.data
            teams == req.teams.data
            top   == resp.body.top_teams
            n     == IF Len(cost) < 5 THEN Len(cost) ELSE 5
        IN  /\ Len(top) = n
            /\ \A i \in 1..n :
                  LET tid  == IF "team_id" \in DOMAIN cost[i]
                              THEN cost[i].team_id ELSE ""
                      mine == {j \in 1..Len(teams) : teams[j].id = tid}
                  IN  /\ top[i].team_id = tid
                      /\ "total_cost" \in DOMAIN cost[i] =>
                            top[i].total_cost = cost[i].total_cost
                      /\ "total_sessions" \in DOMAIN cost[i] =>
                            top[i].total_sessions = cost[i].total_sessions
                      /\ mine = {} =>
                            /\ top[i].team_name = tid
                            /\ top[i].budget = 0
                            /\ top[i].budget_used_pct = 0
                      /\ \A j \in mine :
                            ("monthly_budget" \notin DOMAIN teams[j]
                               \/ teams[j].monthly_budget = 0) =>
                                top[i].budget_used_pct = 0

C13_Witness ==
    /\ req.op = "billing_summary"
    /\ req.cost.ok /\ req.teams.ok
    /\ Len(req.cost.data) = 6
    /\ Len(resp.body.top_teams) = 5
    /\ Len(req.teams.data) = 2
    /\ resp.body.top_teams[2].team_name = "team_new"
    /\ resp.body.top_teams[1].team_name = "Operations"
    /\ invoices # <<>>

\* C14: an update_invoice_status call on an existing invoice changes at
\* most that invoice's status: all its other fields, its line items and
\* every other row stay as they were; on an unknown id the call answers 404
\* and the table is unchanged.
C14_UpdateChangesOnlyStatus ==
    [][ req'.op = "update_invoice_status" =>
          LET hits == {i \in 1..Len(invoices) : invoices[i].id = req'.invoice_id}
          IN  IF hits = {}
              THEN /\ resp'.code = 404
                   /\ invoices' = invoices
              ELSE /\ Len(invoices') = Len(invoices)
                   /\ \A i \in 1..Len(invoices) :
                         /\ i \notin hits => invoices'[i] = invoices[i]
                         /\ DOMAIN invoices'[i] = DOMAIN invoices[i]
                         /\ \A f \in DOMAIN invoices[i] \ {"status"} :
                               invoices'[i][f] = invoices[i][f]
      ]_vars

C14_Witness ==
    /\ req.op = "update_invoice_status"
    /\ resp.code = 200
    /\ Len(invoices) = 2
    /\ req.invoice_id = 1
    /\ invoices[1].status = "PAID"
    /\ invoices[2].status = "ISSUED"
    /\ invoices[1].line_items # <<>>

\* sum(li.amount for li in line_items): from 0, left to right, as floats
RECURSIVE SumAmounts(_, _)
SumAmounts(items, acc) ==
    IF items = <<>> THEN acc
    ELSE SumAmounts(Tail(items), FAdd(acc, Head(items).amount))

\* C11: every add_payment call appends the payment's line item behind the
\* existing ones, which stay as they were; total_amount is the sum of the
\* line items' amounts; and adding the payment and then any other payment
\* gives the same total_amount as adding the two in the other order.
C11_AddPaymentAppendsAndCommutes ==
    [][ req'.op = "add_payment" =>
          LET old == invoices_db[req'.invoice_id]
              new == invoices_db'[req'.invoice_id]
              P1  == req'.payment
          IN  /\ new.line_items = Append(old.line_items, PaymentLineItem(P1))
              /\ new.total_amount = SumAmounts(new.line_items, <<>>)
              /\ \A P2 \in AddPool :
                    add_payment(add_payment(old, P1), P2).total_amount
                      = add_payment(add_payment(old, P2), P1).total_amount
      ]_vars

\* the customer a payment record names: first and last name joined
CustomerName(p) == Strip(p.first_name \o <<" ">> \o p.last_name)

\* C12: for every list of completed payments the payments client returns,
\* get_reconciliation answers with total_revenue the sum of the payments'
\* amounts, invoice_count the number of payments and customers the set of
\* their distinct customer names.
C12_ReconciliationTotals ==
    (req.op = "get_reconciliation" /\ req.payments.ok) =>
        LET payments == req.payments.data
            n        == Len(payments)
        IN  /\ resp.code = 200
            /\ resp.body.total_revenue =
                   SumFloats([i \in 1..n |-> payments[i].amount.value], <<>>)
            /\ resp.body.invoice_count = n
            /\ resp.body.customers = {CustomerName(payments[i]) : i \in 1..n}

====
